---- MODULE Spec2Model ----
(***************************************************************************)
(* Model of crytic_compile/platform/hardhat.py: Hardhat.compile and the    *)
(* helpers it calls (_get_hardhat_paths, _run_hardhat_console).            *)
(*                                                                         *)
(* One run of compile() is a sequential process; pc is its position.       *)
(* The environment (the hardhat tool, the file system) is nondeterministic *)
(* and is drawn in Init (target, kwargs, the build-info directory) or in   *)
(* the action that talks to it (what the tool prints).                     *)
(***************************************************************************)
EXTENDS Integers, Sequences, FiniteSets, TLC

\* ------------------------------------------------------------------ bounds
\* most files a build-info directory holds
MaxFiles == 2
\* modification times are 1..MaxMtime
MaxMtime == 2

\* ------------------------------------------------------------------ values
\* Python's None
None == [none |-> TRUE]

\* an empty dict
EmptyMap == [x \in {} |-> None]

\* dict[k] = v
Put(m, k, v) == [x \in (DOMAIN m) \cup {k} |-> IF x = k THEN v ELSE m[x]]

\* {**a, **b}
Merge(a, b) == [k \in (DOMAIN a) \cup (DOMAIN b) |-> IF k \in DOMAIN b THEN b[k] ELSE a[k]]

\* ------------------------------------------------------------------ pathlib
\* A path is its anchor (absolute or not) and its parts; Path(".") has no part.
MkPath(abs, parts) == [abs |-> abs, parts |-> parts]

\* Path(a, b): an absolute segment discards what precedes it
PathJoin(a, b) == IF b.abs THEN b ELSE [abs |-> a.abs, parts |-> a.parts \o b.parts]

\* Path(a, b, c)
PathJoin3(a, b, c) == PathJoin(PathJoin(a, b), c)

\* the relative path of one name
Rel(name) == MkPath(FALSE, <<name>>)

\* the process's current directory, against which relative paths resolve
Cwd == MkPath(TRUE, <<"cwd">>)

\* ------------------------------------------------------------------ inputs
\* self._target as given by the caller: ".", "proj" or "/abs/proj"
Targets == { MkPath(FALSE, <<>>), MkPath(FALSE, <<"proj">>), MkPath(TRUE, <<"abs", "proj">>) }

\* values a directory option takes: absent, a relative name, an absolute path
DirOptions == { None, Rel("out"), MkPath(TRUE, <<"opt">>) }

\* every kwargs dict over the options compile() reads
AllKwargs ==
    [ hardhat_ignore_compile : BOOLEAN,
      ignore_compile : BOOLEAN,
      npx_disable : BOOLEAN,
      hardhat_cache_directory : {None, Rel("out")},
      hardhat_artifacts_directory : DirOptions,
      hardhat_working_dir : {None, Rel("out")} ]

\* kwargs with nothing set
DefaultKwargs ==
    [ hardhat_ignore_compile |-> FALSE,
      ignore_compile |-> FALSE,
      npx_disable |-> FALSE,
      hardhat_cache_directory |-> None,
      hardhat_artifacts_directory |-> None,
      hardhat_working_dir |-> None ]

\* keys of hardhat's config.paths
PathKeys == {"root", "configFile", "sources", "cache", "artifacts", "tests"}

\* JSON objects the probe may print: none of the keys, all of them (hardhat
\* prints absolute paths), or a partial object with a relative value
ProbeObjects ==
    { EmptyMap,
      [k \in PathKeys |-> MkPath(TRUE, <<"hh", k>>)],
      [k \in {"artifacts"} |-> Rel("build")] }

\* what the console prints on stdout: nothing, text that is not JSON, a JSON
\* value that is not an object (null, a list), or a JSON object
ProbeStdouts ==
    { [kind |-> "empty", paths |-> EmptyMap],
      [kind |-> "notjson", paths |-> EmptyMap],
      [kind |-> "nonobject", paths |-> EmptyMap] }
    \cup { [kind |-> "object", paths |-> o] : o \in ProbeObjects }

\* ------------------------------------------------------------------ state
VARIABLES
    target,               \* self._target
    kwargs,               \* compile()'s **kwargs
    fs,                   \* the build-info directory on disk: whether it exists, name -> mtime
    pc,                   \* position of compile()
    err,                  \* the exception compile() ended with, or None
    cmds,                 \* command lines handed to subprocess.Popen so far
    probe_stderr,         \* the console wrote to stderr
    probe_stdout,         \* what the console wrote to stdout
    compile_stderr,       \* `hardhat compile` wrote to stderr
    detected_paths,       \* compile()'s detected_paths
    build_directory,      \* compile()'s build_directory
    hardhat_working_dir,  \* compile()'s hardhat_working_dir
    listed,               \* os.listdir(build_directory) was called
    files,                \* compile()'s files
    fi,                   \* index in files of the artifact of the for loop
    units,                \* the CompilationUnit objects, in creation order
    cc_filenames,         \* crytic_compile.filenames
    ci,                   \* position in the contracts loops
    si,                   \* position in the sources loop
    path                  \* the sources loop's path

vars == << target, kwargs, fs, pc, err, cmds, probe_stderr, probe_stdout, compile_stderr,
           detected_paths, build_directory, hardhat_working_dir, listed, files, fi,
           units, cc_filenames, ci, si, path >>

config_vars == << target, kwargs, fs >>
probe_vars == << probe_stderr, probe_stdout, detected_paths, build_directory, hardhat_working_dir >>
loop_vars == << ci, si, path >>


\* ------------------------------------------------------------------ build-info files
\* A file name is its stem and its extension ("a" + ".json")
FileName(stem, ext) == [stem |-> stem, ext |-> ext]

\* a filter that keeps every name
EndsWithJson_Any(f) == TRUE

\* f.endswith(".json")
EndsWithJson(f) == f.ext = ".json"

\* file if ".json" not in file else file[0:-5]
UniqId(f) == IF f.ext # ".json" THEN f ELSE FileName(f.stem, "")

\* an opaque JSON value of the userdoc or devdoc key
Doc(x) == [doc |-> x]

\* one contract's entry of output.contracts[file]
Info(abi, obj, obj_rt, sm, sm_rt, userdoc, devdoc) ==
    [ abi |-> abi, object |-> obj, deployed_object |-> obj_rt,
      sourceMap |-> sm, deployed_sourceMap |-> sm_rt,
      userdoc |-> userdoc, devdoc |-> devdoc ]

\* a contract name as the compiler reports it: "Foo" or "A.sol:Foo"
RawName(qual, name) == [qual |-> qual, name |-> name]

\* one (file, contract name, info) of output.contracts, in the document's order
ContractItem(file, raw, info) == [file |-> file, raw |-> raw, info |-> info]

\* one (path, info) of output.sources; info holds the ast
SourceItem(p, ast) == [path |-> p, ast |-> ast]

TopKeys == {"output", "solcVersion", "input"}

\* a build-info document
Artifact(decodes, keys, version, language, optimizer, hasContracts, contracts, hasSources, sources) ==
    [ decodes |-> decodes, keys |-> keys, solcVersion |-> version, language |-> language,
      optimizer |-> optimizer, hasContracts |-> hasContracts, contracts |-> contracts,
      hasSources |-> hasSources, sources |-> sources ]

\* a file whose text is not JSON
Garbage == Artifact(FALSE, {}, "", "", FALSE, FALSE, <<>>, FALSE, <<>>)

ASol == Rel("A.sol")
BSol == Rel("B.sol")

\* the files a build-info directory may hold
FileNames ==
    { FileName("a", ".json"), FileName("b", ".json"), FileName("c", ".json"),
      FileName("m", ".json"), FileName("k", ".json"), FileName("t", ".txt") }

\* what each file holds
Content(f) ==
    CASE f.ext = ".json" /\ f.stem = "a" ->
            \* solc 0.4.10, Foo declared in A.sol and in B.sol
            Artifact(TRUE, TopKeys, "0.4.10", "Solidity", TRUE, TRUE,
                << ContractItem(ASol, RawName("", "Foo"),
                       Info("abiA1", "60", "61", <<"1", ";", "2">>, <<"5">>, None, None)),
                   ContractItem(BSol, RawName("", "Foo"),
                       Info("abiA2", "62", "63", <<>>, <<"7", ";">>, Doc("userA2"), Doc("devA2"))) >>,
                TRUE, << SourceItem(ASol, "astA1"), SourceItem(BSol, "astA2") >>)
      [] f.ext = ".json" /\ f.stem = "b" ->
            \* solc 0.4.9, a qualified contract name
            Artifact(TRUE, TopKeys, "0.4.9", "Solidity", FALSE, TRUE,
                << ContractItem(ASol, RawName("A.sol", "Foo"),
                       Info("abiB1", "64", "65", <<"3">>, <<";", "4">>, Doc("userB1"), None)) >>,
                TRUE, << SourceItem(ASol, "astB1"), SourceItem(BSol, "astB2") >>)
      [] f.ext = ".json" /\ f.stem = "c" ->
            \* another language, version string 0.4.5, no contracts section
            Artifact(TRUE, TopKeys, "0.4.5", "Vyper", FALSE, FALSE, <<>>,
                TRUE, << SourceItem(ASol, "astC1") >>)
      [] f.ext = ".json" /\ f.stem = "k" ->
            \* a JSON document without the input key
            Artifact(TRUE, {"output", "solcVersion"}, "0.8.1", "", FALSE, FALSE, <<>>, FALSE, <<>>)
      [] OTHER -> Garbage

\* the states a build-info directory can be in: missing, or name -> mtime
Dirs(maxFiles) ==
    { [exists |-> FALSE, mtime |-> EmptyMap] } \cup
    { [exists |-> TRUE, mtime |-> m] :
        m \in UNION { [S -> 1..MaxMtime] :
                        S \in { T \in SUBSET FileNames : Cardinality(T) <= maxFiles } } }

\* os.listdir: the names in any order
Listings(S) ==
    { s \in [1..Cardinality(S) -> S] : \A i, j \in 1..Cardinality(S) : i # j => s[i] # s[j] }

\* a key that sorts newest first
GetMtime_Descending(dir, f) == 0 - dir.mtime[f]

\* the key of the sort: os.path.getmtime
GetMtime(dir, f) == dir.mtime[f]

\* sorted(seq, key=getmtime): ascending and stable
RECURSIVE Sorted(_, _)
Sorted(seq, dir) ==
    IF seq = <<>> THEN <<>>
    ELSE LET n == Len(seq)
             x == seq[n]
             init == Sorted(SubSeq(seq, 1, n - 1), dir)
         IN SelectSeq(init, LAMBDA y : GetMtime(dir, y) <= GetMtime(dir, x))
            \o <<x>>
            \o SelectSeq(init, LAMBDA y : GetMtime(dir, y) > GetMtime(dir, x))

\* [f for f in files if f.endswith(".json")]
JsonOnly(seq) == SelectSeq(seq, EndsWithJson)

\* ------------------------------------------------------------------ collaborators
\* extract_name: the part after the last ":"
extract_name(raw) == raw.name

\* convert_filename: the identity of a reported path, resolved against the
\* working directory; absolute is the form equality uses, used is the path as given
convert_filename(raw, working_dir) ==
    [ absolute |-> PathJoin(Cwd, PathJoin(working_dir, raw)), used |-> raw ]

\* set.add of a Filename: equal when the absolute forms are equal
FilenamesAdd(S, f) == IF \E g \in S : g.absolute = f.absolute THEN S ELSE S \cup {f}

\* CompilerVersion(compiler=, version=, optimized=)
CompilerVersion(compiler, version, optimized) ==
    [ compiler |-> compiler, version |-> version, optimized |-> optimized ]

\* Natspec(userdoc, devdoc)
Natspec(userdoc, devdoc) == [ userdoc |-> userdoc, devdoc |-> devdoc ]

\* CompilationUnit(crytic_compile, uniq_id): every registry empty
CompilationUnit(uniq_id) ==
    [ unique_id |-> uniq_id, compiler_version |-> None,
      contracts_names |-> {}, filename_to_contracts |-> EmptyMap,
      abis |-> EmptyMap, bytecodes_init |-> EmptyMap, bytecodes_runtime |-> EmptyMap,
      srcmaps_init |-> EmptyMap, srcmaps_runtime |-> EmptyMap, natspec |-> EmptyMap,
      filenames |-> {}, asts |-> EmptyMap ]

\* str.split(";") of a string given as its characters
RECURSIVE SplitAcc(_, _, _)
SplitAcc(s, cur, acc) ==
    IF s = <<>> THEN Append(acc, cur)
    ELSE IF Head(s) = ";" THEN SplitAcc(Tail(s), <<>>, Append(acc, cur))
    ELSE SplitAcc(Tail(s), Append(cur, Head(s)), acc)

Split(s) == SplitAcc(s, <<>>, <<>>)

\* info.get(key, {})
GetOrEmpty(v) == IF v = None THEN Doc("{}") ELSE v


\* ------------------------------------------------------------------ _get_hardhat_paths
\* base_cmd of compile()
BaseCmd(kw) == IF ~kw.npx_disable THEN <<"npx", "hardhat">> ELSE <<"hardhat">>

\* a skip that needs both flags
HardhatIgnoreCompile_Both(kw) == kw.hardhat_ignore_compile /\ kw.ignore_compile

\* hardhat_ignore_compile of compile()
HardhatIgnoreCompile(kw) == kw.hardhat_ignore_compile \/ kw.ignore_compile

\* a console whose stdout is returned whatever it wrote to stderr
RunHardhatConsole_KeepsStdout(stderr, stdout) == stdout

\* _run_hardhat_console: None when the console wrote to stderr, else its stdout
RunHardhatConsole(stderr, stdout) == IF stderr THEN None ELSE stdout

\* default_paths
DefaultPaths(t) ==
    [ k \in PathKeys |->
        CASE k = "root" -> t
          [] k = "configFile" -> PathJoin(t, Rel("hardhat.config.js"))
          [] k = "sources" -> PathJoin(t, Rel("contracts"))
          [] k = "cache" -> PathJoin(t, Rel("cache"))
          [] k = "artifacts" -> PathJoin(t, Rel("artifacts"))
          [] OTHER -> PathJoin(t, Rel("test")) ]

\* the option of kwargs that overrides a key
OptionOf(kw, k) ==
    CASE k = "cache" -> kw.hardhat_cache_directory
      [] k = "artifacts" -> kw.hardhat_artifacts_directory
      [] OTHER -> kw.hardhat_working_dir

\* override_paths
OverridePaths(t, kw) ==
    [ k \in { j \in {"cache", "artifacts", "root"} : OptionOf(kw, j) # None } |->
        PathJoin(t, OptionOf(kw, k)) ]

\* json.loads(config_str or "{}"): a dict, a value that is no dict, or ValueError
JsonLoads(config_str) ==
    IF config_str = None \/ config_str.kind = "empty" THEN [kind |-> "object", paths |-> EmptyMap]
    ELSE IF config_str.kind = "notjson" THEN [kind |-> "ValueError", paths |-> EmptyMap]
    ELSE config_str

\* _get_hardhat_paths: the merged paths, or the exception it ends with
GetHardhatPaths(t, kw, stderr, stdout) ==
    LET loaded == JsonLoads(RunHardhatConsole(stderr, stdout))
    IN IF loaded.kind = "ValueError"
       THEN [raised |-> None, paths |-> Merge(DefaultPaths(t), OverridePaths(t, kw))]
       ELSE IF loaded.kind = "nonobject"
       THEN [raised |-> [exc |-> "TypeError"], paths |-> EmptyMap]
       ELSE [raised |-> None,
             paths |-> Merge(Merge(DefaultPaths(t), loaded.paths), OverridePaths(t, kw))]

\* build_directory of compile()
BuildDirectory(t, paths) == PathJoin3(t, paths["artifacts"], Rel("build-info"))

\* hardhat_working_dir of compile()
HardhatWorkingDir(t, paths) == PathJoin(t, paths["root"])

\* what the console may do: stdout is read only when stderr is empty
ProbeOutcomes ==
    { [stderr |-> FALSE, stdout |-> s] : s \in ProbeStdouts }
    \cup { [stderr |-> TRUE, stdout |-> s] :
             s \in { x \in ProbeStdouts : x.kind = "empty" \/ DOMAIN x.paths = PathKeys } }

\* an exception leaves compile()
Raise(e) == pc' = "error" /\ err' = [exc |-> e]

\* ------------------------------------------------------------------ compile(), lines 51-101
\* lines 51-67: the probe and the paths derived from it
Probe ==
    /\ pc = "start"
    /\ \E o \in ProbeOutcomes :
         LET r == GetHardhatPaths(target, kwargs, o.stderr, o.stdout)
         IN /\ cmds' = Append(cmds, BaseCmd(kwargs) \o <<"console", "--no-compile">>)
            /\ probe_stderr' = o.stderr
            /\ probe_stdout' = o.stdout
            /\ IF r.raised # None
               THEN /\ Raise(r.raised.exc)
                    /\ UNCHANGED << detected_paths, build_directory, hardhat_working_dir >>
               ELSE /\ detected_paths' = r.paths
                    /\ build_directory' = BuildDirectory(target, r.paths)
                    /\ hardhat_working_dir' = HardhatWorkingDir(target, r.paths)
                    /\ pc' = "compile"
                    /\ err' = err
    /\ UNCHANGED << config_vars, compile_stderr, listed, files, fi, units, cc_filenames, loop_vars >>

\* lines 69-93, flag unset: `hardhat compile --force` runs; its stderr is
\* logged and nothing else is done with it, and the exit status is never read.
\* fs is the directory as os.listdir will find it: after a failed compile,
\* the artifacts an earlier build left there.
RunCompile ==
    /\ pc = "compile"
    /\ ~HardhatIgnoreCompile(kwargs)
    /\ \E e \in BOOLEAN : compile_stderr' = e
    /\ cmds' = Append(cmds, BaseCmd(kwargs) \o <<"compile", "--force">>)
    /\ pc' = "list"
    /\ UNCHANGED << config_vars, err, probe_vars, listed, files, fi, units, cc_filenames, loop_vars >>

\* line 69, flag set: nothing runs
SkipCompile ==
    /\ pc = "compile"
    /\ HardhatIgnoreCompile(kwargs)
    /\ pc' = "list"
    /\ UNCHANGED << config_vars, err, cmds, compile_stderr, probe_vars, listed, files, fi, units,
                    cc_filenames, loop_vars >>

\* lines 95-101: list, sort by mtime, keep *.json, fail when nothing is left
ListArtifacts ==
    /\ pc = "list"
    /\ listed' = TRUE
    /\ IF ~fs.exists
       THEN /\ Raise("FileNotFoundError")
            /\ UNCHANGED << files, fi >>
       ELSE \E order \in Listings(DOMAIN fs.mtime) :
              LET fl == JsonOnly(Sorted(order, fs))
              IN /\ files' = fl
                 /\ IF fl = <<>>
                    THEN Raise("InvalidCompilation") /\ fi' = fi
                    ELSE pc' = "file" /\ fi' = 1 /\ err' = err
    /\ UNCHANGED << config_vars, cmds, compile_stderr, probe_vars, units, cc_filenames, loop_vars >>


\* ------------------------------------------------------------------ compile(), lines 103-181
\* the document of the artifact of the for loop
Loaded == Content(files[fi])

\* the compilation_unit of the for loop
LastUnit == units[Len(units)]

\* line 117
Compiler(language) == IF language = "Solidity" THEN "solc" ELSE "vyper"

\* [f"0.4.{x}" for x in range(0, 10)]
LegacyVersions ==
    {"0.4.0", "0.4.1", "0.4.2", "0.4.3", "0.4.4", "0.4.5", "0.4.6", "0.4.7", "0.4.8", "0.4.9"}

\* lines 124-126: skip_filename
SkipFilename(unit) == unit.compiler_version.version \in LegacyVersions

\* where the loop body goes after json.load: the contracts loops when there is
\* something to iterate, else the sources loop, else the next file
PhaseAfterContracts(c) == IF c.hasSources /\ c.sources # <<>> THEN "sources" ELSE "next"
PhaseAfterLoad(c) == IF c.hasContracts /\ c.contracts # <<>> THEN "contracts" ELSE PhaseAfterContracts(c)

\* move to a phase of the loop body; "next" is the next iteration or the end
Enter(phase) ==
    /\ pc' = IF phase # "next" THEN phase ELSE IF fi < Len(files) THEN "file" ELSE "done"
    /\ fi' = IF phase = "next" /\ fi < Len(files) THEN fi + 1 ELSE fi
    /\ ci' = IF phase = "contracts" THEN 1 ELSE 0
    /\ si' = IF phase = "sources" THEN 1 ELSE 0
    /\ path' = None
    /\ err' = err

\* lines 140-161: the registries of one unit after one contract is recorded
RecordContract(u, name, fn, info) ==
    [ u EXCEPT
        !.contracts_names = @ \cup {name},
        !.filename_to_contracts =
            Put(@, fn.absolute, (IF fn.absolute \in DOMAIN @ THEN @[fn.absolute] ELSE {}) \cup {name}),
        !.abis = Put(@, name, info.abi),
        !.bytecodes_init = Put(@, name, info.object),
        !.bytecodes_runtime = Put(@, name, info.deployed_object),
        !.srcmaps_init = Put(@, name, Split(info.sourceMap)),
        !.srcmaps_runtime = Put(@, name, Split(info.deployed_sourceMap)),
        !.natspec = Put(@, name, Natspec(GetOrEmpty(info.userdoc), GetOrEmpty(info.devdoc))) ]

\* registries shared by every unit of the run
StoreContract_Shared(us, name, fn, info) ==
    [ i \in 1..Len(us) |-> RecordContract(us[i], name, fn, info) ]

\* the units after the unit of the for loop records a contract: the others are not touched
StoreContract(us, name, fn, info) ==
    [ us EXCEPT ![Len(us)] = RecordContract(@, name, fn, info) ]

\* a decode that tolerates missing top-level keys
LoadError_Lenient(c) == IF ~c.decodes THEN "JSONDecodeError" ELSE ""

\* lines 111-116: the exception json.load or the top-level lookups end with,
\* "" when there is none
LoadError(c) ==
    IF ~c.decodes THEN "JSONDecodeError"
    ELSE IF ~(TopKeys \subseteq c.keys) THEN "KeyError"
    ELSE ""

\* lines 104-126: create the unit, load the document, set the compiler version.
\* Documents that decode and hold the three top-level keys are well formed
\* below them (language, settings.optimizer.enabled, abi, evm, ast).
LoadArtifact ==
    /\ pc = "file"
    /\ LET file == files[fi]
           c == Content(file)
           u == CompilationUnit(UniqId(file))
       IN IF LoadError(c) # ""
          THEN /\ units' = Append(units, u)
               /\ Raise(LoadError(c))
               /\ UNCHANGED << fi, loop_vars >>
          ELSE /\ units' = Append(units,
                     [u EXCEPT !.compiler_version =
                         CompilerVersion(Compiler(c.language), c.solcVersion, c.optimizer)])
               /\ Enter(PhaseAfterLoad(c))
    /\ UNCHANGED << config_vars, cmds, compile_stderr, probe_vars, listed, files, cc_filenames >>

\* lines 129-161: one iteration of the contracts loops
AddContract ==
    /\ pc = "contracts"
    /\ LET item == Loaded.contracts[ci]
           contract_name == extract_name(item.raw)
           contract_filename == convert_filename(item.file, hardhat_working_dir)
       IN units' = StoreContract(units, contract_name, contract_filename, item.info)
    /\ IF ci < Len(Loaded.contracts)
       THEN ci' = ci + 1 /\ UNCHANGED << pc, err, fi, si, path >>
       ELSE Enter(PhaseAfterContracts(Loaded))
    /\ UNCHANGED << config_vars, cmds, compile_stderr, probe_vars, listed, files, cc_filenames >>

\* lines 165-178: the identity a source is recorded under
SourcePath(u, reported) ==
    IF SkipFilename(u)
    THEN convert_filename(target, hardhat_working_dir)
    ELSE convert_filename(reported, hardhat_working_dir)

\* a run-global set that is never fed
GlobalFilenamesAdd_Missing(S, f) == S

\* line 179: crytic_compile.filenames.add(path)
GlobalFilenamesAdd(S, f) == FilenamesAdd(S, f)

\* lines 164-179: convert the path and add it to the run's filenames
AddSourceGlobal ==
    /\ pc = "sources"
    /\ LET p == SourcePath(LastUnit, Loaded.sources[si].path)
       IN /\ path' = p
          /\ cc_filenames' = GlobalFilenamesAdd(cc_filenames, p)
    /\ pc' = "src_unit"
    /\ UNCHANGED << config_vars, err, cmds, compile_stderr, probe_vars, listed, files, fi, units, ci, si >>

\* line 180: compilation_unit.filenames.add(path)
AddSourceUnit ==
    /\ pc = "src_unit"
    /\ units' = [units EXCEPT ![Len(units)].filenames = FilenamesAdd(@, path)]
    /\ pc' = "src_ast"
    /\ UNCHANGED << config_vars, err, cmds, compile_stderr, probe_vars, listed, files, fi,
                    cc_filenames, loop_vars >>

\* line 181: compilation_unit.asts[path.absolute] = info["ast"], then the next source
AddSourceAst ==
    /\ pc = "src_ast"
    /\ units' = [units EXCEPT ![Len(units)].asts = Put(@, path.absolute, Loaded.sources[si].ast)]
    /\ IF si < Len(Loaded.sources)
       THEN si' = si + 1 /\ pc' = "sources" /\ UNCHANGED << err, fi, ci, path >>
       ELSE Enter("next")
    /\ UNCHANGED << config_vars, cmds, compile_stderr, probe_vars, listed, files, cc_filenames >>

\* ------------------------------------------------------------------ specification
\* kwargs of the runs that explore the directory: no option but ignore_compile
ArtifactKwargs == { DefaultKwargs, [DefaultKwargs EXCEPT !.ignore_compile = TRUE] }

\* directories of the runs that explore the options: missing, or at most one file
SmallDirs == { d \in Dirs(1) : \A f \in DOMAIN d.mtime : d.mtime[f] = 1 }

\* The state when compile() is entered. Two families of runs: every option
\* over a small directory, and every directory under the default options.
Init ==
    /\ target \in Targets
    /\ \/ kwargs \in AllKwargs /\ fs \in SmallDirs
       \/ kwargs \in ArtifactKwargs /\ fs \in Dirs(MaxFiles)
    /\ pc = "start"
    /\ err = None
    /\ cmds = <<>>
    /\ probe_stderr = FALSE
    /\ probe_stdout = None
    /\ compile_stderr = FALSE
    /\ detected_paths = EmptyMap
    /\ build_directory = None
    /\ hardhat_working_dir = None
    /\ listed = FALSE
    /\ files = <<>>
    /\ fi = 0
    /\ units = <<>>
    /\ cc_filenames = {}
    /\ ci = 0
    /\ si = 0
    /\ path = None

Next ==
    \/ Probe
    \/ RunCompile
    \/ SkipCompile
    \/ ListArtifacts
    \/ LoadArtifact
    \/ AddContract
    \/ AddSourceGlobal
    \/ AddSourceUnit
    \/ AddSourceAst

Spec == Init /\ [][Next]_vars


\* ------------------------------------------------------------------ vocabulary of the properties
\* a name with the artifact extension
IsJsonName(f) == f.ext = ".json"

\* the artifacts of the directory
JsonArtifacts == { f \in DOMAIN fs.mtime : IsJsonName(f) }

\* the file a unit was created for
FileOf(u) == FileName(u.unique_id.stem, IF u.unique_id.ext = "" THEN ".json" ELSE u.unique_id.ext)

\* the document a unit was created for
DocOf(u) == Content(FileOf(u))

\* a document that does not decode or lacks a required top-level key
Malformed(c) == ~c.decodes \/ \E k \in {"output", "solcVersion", "input"} : k \notin c.keys

\* the loop body of unit i has run to its end
UnitDone(i) == i < Len(units) \/ pc \in {"file", "done"}

\* a tool wrote to stderr
ToolFailed == probe_stderr \/ compile_stderr

\* the unqualified contract names of the first n contracts of a document
NamesOf(c, n) == { c.contracts[k].raw.name : k \in 1..n }

\* the last of the first n contracts of a document that is named N
LastItem(c, n, N) ==
    c.contracts[CHOOSE k \in 1..n :
                    /\ c.contracts[k].raw.name = N
                    /\ \A j \in (k + 1)..n : c.contracts[j].raw.name # N]

\* how many contracts of its document unit i has recorded
Recorded(i) ==
    IF i = Len(units) /\ pc = "contracts" THEN ci - 1
    ELSE IF i = Len(units) /\ pc = "error" THEN 0
    ELSE Len(DocOf(units[i]).contracts)

\* the kind of a command line: its first word after the base command
IsProbeCmd(c) == c[Len(c) - 1] = "console"
IsCompileCmd(c) == c[Len(c) - 1] = "compile"

\* a skip flag is set
SkipFlag == kwargs.hardhat_ignore_compile \/ kwargs.ignore_compile

\* ------------------------------------------------------------------ C1
\* C1: when the build-info directory exists and holds no name ending in
\* ".json" (it is empty or holds only other files), once it is listed
\* compile() has ended with InvalidCompilation, no compilation unit exists
\* and the run's filename set is still empty.
C1_NoArtifactsIsFatal ==
    (listed /\ fs.exists /\ JsonArtifacts = {}) =>
        /\ pc = "error"
        /\ err = [exc |-> "InvalidCompilation"]
        /\ units = <<>>
        /\ cc_filenames = {}

\* the directory holds a file, none ends in .json, and the run has ended
C1_Witness ==
    /\ listed
    /\ fs.exists
    /\ DOMAIN fs.mtime # {}
    /\ JsonArtifacts = {}
    /\ pc = "error"

\* ------------------------------------------------------------------ C2
\* a finished unit holds what its document declares: every contract name, and
\* the ast of the last source
Populated(u) ==
    LET c == DocOf(u)
    IN /\ u.contracts_names = NamesOf(c, Len(c.contracts))
       /\ c.sources # <<>> =>
            \E k \in DOMAIN u.asts : u.asts[k] = c.sources[Len(c.sources)].ast

\* C2: when the .json artifacts have pairwise distinct modification times,
\* units are created oldest artifact first whatever the names: a unit exists
\* only when every older artifact has its unit, earlier in creation order and
\* fully populated.
C2_OldestFirst ==
    (fs.exists /\ \A f, g \in JsonArtifacts : f # g => fs.mtime[f] # fs.mtime[g]) =>
        /\ \A i, j \in 1..Len(units) :
               i < j => /\ fs.mtime[FileOf(units[i])] < fs.mtime[FileOf(units[j])]
                        /\ Populated(units[i])
        /\ \A j \in 1..Len(units) : \A a \in JsonArtifacts :
               fs.mtime[a] < fs.mtime[FileOf(units[j])] =>
                   \E i \in 1..(j - 1) : FileOf(units[i]) = a

\* b.json is older than a.json and its unit was created first
C2_Witness ==
    /\ Len(units) = 2
    /\ units[1].unique_id.stem = "b"
    /\ units[2].unique_id.stem = "a"
    /\ fs.mtime[FileName("b", ".json")] < fs.mtime[FileName("a", ".json")]

\* ------------------------------------------------------------------ C3
\* the identities of the sources a document reports, kept as reported
ReportedSources(c) ==
    { convert_filename(c.sources[k].path, hardhat_working_dir) : k \in 1..Len(c.sources) }

\* C3: in a finished unit whose document lists sources, when the family is
\* solc and the version is one of 0.4.0 .. 0.4.9 every source is recorded
\* under the canonicalized target path; for any other version, and for any
\* other family whatever the version, the sources are recorded under their
\* own canonicalized paths.
C3_LegacyQuirk ==
    \A i \in 1..Len(units) :
        LET c == DocOf(units[i])
        IN (UnitDone(i) /\ ~Malformed(c) /\ c.sources # <<>>) =>
             units[i].filenames =
                 IF c.language = "Solidity" /\ c.solcVersion \in LegacyVersions
                 THEN { convert_filename(target, hardhat_working_dir) }
                 ELSE ReportedSources(c)

C5_ExactlyOneFile ==
    \A i \in 1..Len(units) :
        \A n \in DOMAIN units[i].abis :
            /\ n \in units[i].contracts_names
            /\ Cardinality({ k \in DOMAIN units[i].filename_to_contracts :
                               n \in units[i].filename_to_contracts[k] }) = 1

\* ------------------------------------------------------------------ C6
\* C6: at every point of a run, in every unit, each key of asts is the
\* absolute form of a member of the unit's filenames, and every member of
\* the unit's filenames is in the run's filename set.
C6_FilenamesCover ==
    \A i \in 1..Len(units) :
        /\ \A k \in DOMAIN units[i].asts : \E f \in units[i].filenames : f.absolute = k
        /\ \A f \in units[i].filenames : \E g \in cc_filenames : g.absolute = f.absolute

\* two units hold asts, the second is in the middle of its sources loop
C6_Witness ==
    /\ Len(units) = 2
    /\ DOMAIN units[1].asts # {}
    /\ DOMAIN units[2].asts # {}
    /\ pc = "src_unit"

\* ------------------------------------------------------------------ C7
\* the default of a key under the project root
DefaultUnderRoot(k) ==
    IF k = "root" THEN target ELSE PathJoin(target, Rel(k))

\* the path C7 resolves a key to
Resolved(k) ==
    IF OptionOf(kwargs, k) # None THEN PathJoin(target, OptionOf(kwargs, k))
    ELSE IF ~probe_stderr /\ probe_stdout.kind = "object" /\ k \in DOMAIN probe_stdout.paths
    THEN probe_stdout.paths[k]
    ELSE DefaultUnderRoot(k)

\* the probe's output is one the claim speaks of: stderr, or a stdout that is
\* empty, not JSON, or a JSON object
StatedProbeOutcome == probe_stderr \/ probe_stdout.kind \in {"empty", "notjson", "object"}

\* C7: once the probe has run (stderr written, or stdout empty, not JSON, or
\* a JSON object), no error was raised; each of root, artifacts and cache is
\* the override when given, else the probe's value when stdout is a JSON
\* object holding the key, else the default under the project root; and the
\* artifact directory is <resolved artifacts>/build-info.
C7_PathPrecedence ==
    (cmds # <<>> /\ StatedProbeOutcome) =>
        /\ pc # "error" \/ err.exc \notin {"TypeError", "ValueError"}
        /\ \A k \in {"root", "artifacts", "cache"} : detected_paths[k] = Resolved(k)
        /\ build_directory = PathJoin(detected_paths["artifacts"], Rel("build-info"))

\* ------------------------------------------------------------------ C8
\* C8: a malformed artifact (not JSON, or lacking output, solcVersion or
\* input) ends compile() with an error at that artifact: the loop never moves
\* past it, no unit is created after its own, and the run never completes.
C8_MalformedAborts ==
    /\ \A k \in 1..Len(files) :
           Malformed(Content(files[k])) =>
               /\ fi <= k
               /\ pc # "done"
               /\ Len(units) <= k
               /\ Len(units) = k =>
                      /\ pc = "error"
                      /\ err = [exc |-> IF Content(files[k]).decodes THEN "KeyError"
                                        ELSE "JSONDecodeError"]

\* the first of two artifacts is malformed and the run ended there
C8_Witness ==
    /\ Len(files) = 2
    /\ Malformed(Content(files[1]))
    /\ pc = "error"
    /\ fi = 1
    /\ Len(units) = 1

\* ------------------------------------------------------------------ C9
\* C9: at every point of a run and in every unit, earlier ones included, the
\* entries of abis, bytecodes_init, bytecodes_runtime, srcmaps_init,
\* srcmaps_runtime and natspec are those of the unit's own artifact: for each
\* contract name recorded so far, the values of the last contract of that
\* name in the unit's document. A later artifact declaring the same name
\* changes nothing in an earlier unit.
C9_UnitsIndependent ==
    \A i \in 1..Len(units) :
        LET u == units[i]
            c == DocOf(u)
            n == Recorded(i)
        IN /\ DOMAIN u.abis = NamesOf(c, n)
           /\ \A N \in NamesOf(c, n) :
                LET info == LastItem(c, n, N).info
                IN /\ u.abis[N] = info.abi
                   /\ u.bytecodes_init[N] = info.object
                   /\ u.bytecodes_runtime[N] = info.deployed_object
                   /\ u.srcmaps_init[N] = Split(info.sourceMap)
                   /\ u.srcmaps_runtime[N] = Split(info.deployed_sourceMap)
                   /\ u.natspec[N] = Natspec(GetOrEmpty(info.userdoc), GetOrEmpty(info.devdoc))

\* two units of one run both declare Foo, each with its own abi
C9_Witness ==
    /\ Len(units) = 2
    /\ "Foo" \in DOMAIN units[1].abis
    /\ "Foo" \in DOMAIN units[2].abis
    /\ units[1].abis["Foo"] # units[2].abis["Foo"]

\* ------------------------------------------------------------------ C10
\* C10: the probe is the first command of a run. With a skip flag set no
\* compile command is ever invoked, and the directory is still listed and
\* its artifacts parsed. With no flag set the compile command is invoked
\* once, after the probe and before the directory is listed.
C10_CompileStep ==
    /\ cmds # <<>> => IsProbeCmd(cmds[1])
    /\ \A k \in 2..Len(cmds) : IsCompileCmd(cmds[k])
    /\ SkipFlag => \A k \in 1..Len(cmds) : ~IsCompileCmd(cmds[k])
    /\ listed => Len(cmds) = IF SkipFlag THEN 1 ELSE 2
    /\ ~listed => pc \in {"start", "compile", "list", "error"}
    /\ pc = "list" => Len(cmds) = IF SkipFlag THEN 1 ELSE 2
    /\ pc = "done" => { FileOf(units[i]) : i \in 1..Len(units) } = { f \in DOMAIN fs.mtime : IsJsonName(f) }

\* only ignore_compile is set, and the artifacts on disk were parsed to the end
C10_Witness ==
    /\ kwargs.ignore_compile
    /\ ~kwargs.hardhat_ignore_compile
    /\ pc = "done"
    /\ Len(units) = 2
    /\ Len(cmds) = 1

====
